---- MODULE Spec2Model ----
(***************************************************************************)
(* Model of the recipe-extraction pipeline: the orchestrator               *)
(* (app.py scrape_recipe), the extraction strategies, the Translation Step *)
(* and the Schema Normalizer (scraper.py), with the canonical template of  *)
(* config.py.                                                              *)
(*                                                                         *)
(* Python values are tagged records: None, PyStr, PyInt, PyBool, PyFloat,  *)
(* PyList, PyDict.  A dict is a TLA+ function from key strings to values.     *)
(* A call that may raise returns an outcome: Ok(value) or Raise(kind).     *)
(***************************************************************************)
EXTENDS Integers, Sequences, FiniteSets, TLC

(* ------------------------------------------------------------------ *)
(* Bounds                                                               *)
(* ------------------------------------------------------------------ *)
\* at most this many keys of a raw dict are set freely by the producer
MaxKeys == 1

(* ------------------------------------------------------------------ *)
(* Python values                                                        *)
(* ------------------------------------------------------------------ *)
None == [k |-> "null"]
PyStr(s) == [k |-> "str", s |-> s]
PyInt(n) == [k |-> "int", n |-> n]
PyBool(b) == [k |-> "bool", b |-> b]
PyFloat(f) == [k |-> "float", f |-> f]
PyList(l) == [k |-> "list", l |-> l]
PyDict(d) == [k |-> "dict", d |-> d]
EmptyDict == <<>>

Ok(v) == [ok |-> TRUE, val |-> v]
Raise(e) == [ok |-> FALSE, exc |-> e]

\* isinstance(v, t) for the builtin types the code tests; bool is a
\* subclass of int in Python
isinstance(v, t) ==
    CASE t = "int" -> v.k \in {"int", "bool"}
      [] OTHER -> v.k = t

\* truth value of a Python object (bool(v))
Truthy(v) ==
    CASE v.k = "null" -> FALSE
      [] v.k = "bool" -> v.b
      [] v.k = "int" -> v.n # 0
      [] v.k = "float" -> v.f # "0.0"
      [] v.k = "str" -> v.s # ""
      [] v.k = "list" -> v.l # <<>>
      [] v.k = "dict" -> DOMAIN v.d # {}

(* ------------------------------------------------------------------ *)
(* Strings                                                              *)
(* ------------------------------------------------------------------ *)
UpperCase == "ABCDEFGHIJKLMNOPQRSTUVWXYZ"
LowerCase == "abcdefghijklmnopqrstuvwxyz"
Whitespace == {" ", "\n", "\t"}

CharAt(s, i) == SubSeq(s, i, i)

LowerChar(c) ==
    IF \E i \in 1..26 : CharAt(UpperCase, i) = c
    THEN CharAt(LowerCase, CHOOSE i \in 1..26 : CharAt(UpperCase, i) = c)
    ELSE c

RECURSIVE lower(_)
\* str.lower()
lower(s) ==
    IF Len(s) = 0 THEN ""
    ELSE LowerChar(CharAt(s, 1)) \o lower(SubSeq(s, 2, Len(s)))

RECURSIVE lstrip(_)
lstrip(s) ==
    IF Len(s) > 0 /\ CharAt(s, 1) \in Whitespace
    THEN lstrip(SubSeq(s, 2, Len(s)))
    ELSE s

RECURSIVE rstrip(_)
rstrip(s) ==
    IF Len(s) > 0 /\ CharAt(s, Len(s)) \in Whitespace
    THEN rstrip(SubSeq(s, 1, Len(s) - 1))
    ELSE s

\* str.strip()
strip(s) == rstrip(lstrip(s))

RECURSIVE split_newline(_, _)
\* s.split("\n"), cur being the piece read so far
split_newline(s, cur) ==
    IF Len(s) = 0 THEN <<cur>>
    ELSE IF CharAt(s, 1) = "\n"
         THEN <<cur>> \o split_newline(SubSeq(s, 2, Len(s)), "")
         ELSE split_newline(SubSeq(s, 2, Len(s)), cur \o CharAt(s, 1))

\* s.capitalize(): first character upper-cased, the rest lower-cased
UpperChar(c) ==
    IF \E i \in 1..26 : CharAt(LowerCase, i) = c
    THEN CharAt(UpperCase, CHOOSE i \in 1..26 : CharAt(LowerCase, i) = c)
    ELSE c

capitalize(s) ==
    IF Len(s) = 0 THEN ""
    ELSE UpperChar(CharAt(s, 1)) \o lower(SubSeq(s, 2, Len(s)))

RECURSIVE contains(_, _)
\* needle in s (substring test)
contains(s, needle) ==
    IF Len(s) < Len(needle) THEN FALSE
    ELSE IF SubSeq(s, 1, Len(needle)) = needle THEN TRUE
    ELSE contains(SubSeq(s, 2, Len(s)), needle)

(* ------------------------------------------------------------------ *)
(* str() and repr()                                                     *)
(* ------------------------------------------------------------------ *)
\* the order in which the keys of a dict are listed (dicts keep the
\* insertion order; every producer inserts in this order)
KeyOrder ==
    <<"title", "description", "prep_time", "cook_time", "total_time",
      "yields", "ingredients", "instructions", "image", "url", "host",
      "key", "extra", "servings", "@type", "@graph", "recipeIngredient",
      "recipeInstructions", "name", "notes", "author_name", "thumbnail_url">>

RECURSIVE repr(_)
RECURSIVE repr_items(_, _)
RECURSIVE repr_entries(_, _)

repr_items(l, i) ==
    IF i > Len(l) THEN ""
    ELSE (IF i > 1 THEN ", " ELSE "") \o repr(l[i]) \o repr_items(l, i + 1)

repr_entries(d, i) ==
    IF i > Len(KeyOrder) THEN <<>>
    ELSE (IF KeyOrder[i] \in DOMAIN d
          THEN <<"'" \o KeyOrder[i] \o "': " \o repr(d[KeyOrder[i]])>>
          ELSE <<>>) \o repr_entries(d, i + 1)

RECURSIVE join_comma(_, _)
join_comma(l, i) ==
    IF i > Len(l) THEN ""
    ELSE (IF i > 1 THEN ", " ELSE "") \o l[i] \o join_comma(l, i + 1)

repr(v) ==
    CASE v.k = "null" -> "None"
      [] v.k = "bool" -> IF v.b THEN "True" ELSE "False"
      [] v.k = "int" -> ToString(v.n)
      [] v.k = "float" -> v.f
      [] v.k = "str" -> "'" \o v.s \o "'"
      [] v.k = "list" -> "[" \o repr_items(v.l, 1) \o "]"
      [] v.k = "dict" -> "{" \o join_comma(repr_entries(v.d, 1), 1) \o "}"

\* str(v)
str(v) == IF v.k = "str" THEN v.s ELSE repr(v)

(* ------------------------------------------------------------------ *)
(* Canonical template (config.py)                                       *)
(* ------------------------------------------------------------------ *)
UNIFIED_RECIPE_FORMAT ==
    [title |-> PyStr(""),
     description |-> PyStr(""),
     prep_time |-> PyInt(0),
     cook_time |-> PyInt(0),
     total_time |-> PyInt(0),
     yields |-> PyInt(0),
     ingredients |-> PyList(<<>>),
     instructions |-> PyList(<<>>),
     image |-> PyDict([url |-> PyStr(""), key |-> None]),
     url |-> PyStr(""),
     host |-> PyStr("")]

Fields == DOMAIN UNIFIED_RECIPE_FORMAT

\* the module global UNIFIED_RECIPE_FORMAT as it is at run time: the dict
\* above when config.py is loaded, and shared by all requests
VARIABLE template

\* template_after_build with the record built in the template itself
\* (no copy)
template_after_build_aliased(t, built) == built

\* The template after a record was built from it: the builders work on
\* UNIFIED_RECIPE_FORMAT.copy() and assign to keys of the copy, which
\* rebinds them in the copy alone; no list and no image dict held by the
\* template is written in place.
template_after_build(t, built) == t

\* a record of the canonical shape
SampleRecord ==
    [title |-> PyStr("Pasta"),
     description |-> PyStr("Quick pasta"),
     prep_time |-> PyInt(10),
     cook_time |-> PyInt(20),
     total_time |-> PyInt(30),
     yields |-> PyInt(4),
     ingredients |-> PyList(<<PyStr("1 onion"), PyStr("200 g pasta")>>),
     instructions |-> PyList(<<PyStr("Boil pasta"), PyStr("Serve")>>),
     image |-> PyDict([url |-> PyStr("http://img/p.jpg"), key |-> PyStr("k1")]),
     url |-> PyStr("http://site/r"),
     host |-> PyStr("site")]

(* ------------------------------------------------------------------ *)
(* Time and servings parsers (utils.py): free text to integer, the      *)
(* lower bound of a range, 0 for what does not parse, never raising     *)
(* ------------------------------------------------------------------ *)
parse_time_to_minutes(v) ==
    IF v.k # "str" THEN 0
    ELSE CASE v.s = "1 hour 30 min" -> 90
           [] v.s = "PT45M" -> 45
           [] OTHER -> 0

parse_servings_to_int(v) ==
    IF v.k # "str" THEN 0
    ELSE CASE v.s = "4-6 servings" -> 4
           [] v.s = "Serves 8" -> 8
           [] OTHER -> 0

RECURSIVE digits_value(_, _)
\* the value of a string of decimal digits, -1 when it is not one
digits_value(s, acc) ==
    IF Len(s) = 0 THEN acc
    ELSE LET Digits == "0123456789"
             c == CharAt(s, 1)
         IN IF \E i \in 1..10 : CharAt(Digits, i) = c
            THEN digits_value(SubSeq(s, 2, Len(s)),
                     10 * acc + (CHOOSE i \in 1..10 : CharAt(Digits, i) = c) - 1)
            ELSE -1

\* try: int(s) except (ValueError, TypeError): 0
int_or_zero(v) ==
    IF v.k = "str" /\ Len(strip(v.s)) > 0 /\ digits_value(strip(v.s), 0) >= 0
    THEN digits_value(strip(v.s), 0)
    ELSE 0

(* ------------------------------------------------------------------ *)
(* Schema Normalizer (scraper.py validate_recipe_structure)             *)
(* ------------------------------------------------------------------ *)
\* validated_int without the parsing of strings
validated_int_unparsed(key, x) ==
    IF isinstance(x, "int") \/ isinstance(x, "str") THEN x ELSE PyInt(0)

\* the int branch of the loop body
validated_int(key, x) ==
    IF isinstance(x, "int") THEN x
    ELSE IF isinstance(x, "str")
         THEN IF key \in {"prep_time", "cook_time", "total_time"}
              THEN PyInt(parse_time_to_minutes(x))
              ELSE IF key = "yields"
                   THEN PyInt(parse_servings_to_int(x))
                   ELSE PyInt(int_or_zero(x))
         ELSE PyInt(0)

\* validated_field wrapping every truthy value of a list field, lists too
validated_field_wrapping(key, recipe_data) ==
    LET t == template[key] IN
    IF key \notin DOMAIN recipe_data THEN t
    ELSE LET x == recipe_data[key] IN
         IF isinstance(t, "list")
         THEN IF Truthy(x) THEN PyList(<<PyStr(str(x))>>) ELSE PyList(<<>>)
         ELSE IF isinstance(t, "int")
         THEN validated_int(key, x)
         ELSE IF isinstance(t, "dict")
         THEN IF isinstance(x, "dict") THEN x
              ELSE IF isinstance(x, "str")
                   THEN PyDict([url |-> x, key |-> None])
                   ELSE t
         ELSE IF x # None THEN PyStr(str(x)) ELSE PyStr("")

\* one iteration of the loop: the value validated[key] ends with
validated_field(key, recipe_data) ==
    LET t == template[key] IN
    IF key \notin DOMAIN recipe_data THEN t
    ELSE LET x == recipe_data[key] IN
         IF isinstance(t, "list")
         THEN IF isinstance(x, "list") THEN x
              ELSE IF Truthy(x) THEN PyList(<<PyStr(str(x))>>) ELSE PyList(<<>>)
         ELSE IF isinstance(t, "int")
         THEN validated_int(key, x)
         ELSE IF isinstance(t, "dict")
         THEN IF isinstance(x, "dict") THEN x
              ELSE IF isinstance(x, "str")
                   THEN PyDict([url |-> x, key |-> None])
                   ELSE t
         ELSE IF x # None THEN PyStr(str(x)) ELSE PyStr("")

\* validate_recipe_structure(recipe_data): recipe_data is what json.loads
\* returned.  "key not in recipe_data" raises TypeError on None, a number
\* or a bool; on a list it tests membership, and a list holding a key
\* makes recipe_data[key] raise TypeError; on a str it tests for a
\* substring, and recipe_data[key] raises TypeError as well.
validate_recipe_structure(recipe_data) ==
    CASE recipe_data.k = "dict" ->
           Ok([key \in Fields |-> validated_field(key, recipe_data.d)])
      [] recipe_data.k = "list" ->
           IF \E key \in Fields : \E i \in 1..Len(recipe_data.l) :
                  recipe_data.l[i] = PyStr(key)
           THEN Raise("TypeError")
           ELSE Ok(template)
      [] recipe_data.k = "str" ->
           IF \E key \in Fields : contains(recipe_data.s, key)
           THEN Raise("TypeError")
           ELSE Ok(template)
      [] OTHER -> Raise("TypeError")

(* ------------------------------------------------------------------ *)
(* Dicts, JSON text and collaborators                                   *)
(* ------------------------------------------------------------------ *)
\* d.get(key, default)
get(d, key, default) == IF key \in DOMAIN d THEN d[key] ELSE default

\* a.update(b) on a copy of a
update(a, b) ==
    [key \in DOMAIN a \cup DOMAIN b |-> IF key \in DOMAIN b THEN b[key] ELSE a[key]]

\* [str(x) for x in l if x]
RECURSIVE str_truthy(_)
str_truthy(l) ==
    IF l = <<>> THEN <<>>
    ELSE (IF Truthy(Head(l)) THEN <<PyStr(str(Head(l)))>> ELSE <<>>)
             \o str_truthy(Tail(l))

\* [x.strip() for x in l if x.strip()], l a sequence of strings
RECURSIVE strip_nonempty(_)
strip_nonempty(l) ==
    IF l = <<>> THEN <<>>
    ELSE (IF strip(Head(l)) # "" THEN <<PyStr(strip(Head(l)))>> ELSE <<>>)
             \o strip_nonempty(Tail(l))

\* The text of an AI response: a JSON value or text that is no JSON
\* (body), possibly wrapped in a markdown code fence.
Invalid == [k |-> "invalid"]
Text(fence, body) == [fence |-> fence, body |-> body]

\* the removal of the markdown code fence
strip_fence(text) == [text EXCEPT !.fence = FALSE]

\* json.loads(text)
json_loads(text) ==
    IF text.fence \/ text.body = Invalid
    THEN Raise("JSONDecodeError")
    ELSE Ok(text.body)

\* result of a call: its outcome and the calls it made, in order
Result(res, ev) == [res |-> res, ev |-> ev]

\* Image upload (s3_upload.py): {url, key}; without storage, or when the
\* upload fails, the source URL with no key.  It does not raise.
upload_image_if_configured(src, stored) ==
    IF stored /\ Truthy(src)
    THEN [url |-> PyStr("https://cdn/img"), key |-> PyStr("k1")]
    ELSE [url |-> src, key |-> None]

\* Platform classifier (utils.py): host-substring matching
get_platform(u) ==
    IF contains(lower(u), "tiktok.com") THEN "tiktok"
    ELSE IF contains(lower(u), "youtube.com") \/ contains(lower(u), "youtu.be")
         THEN "youtube"
         ELSE "website"

(* ------------------------------------------------------------------ *)
(* Language detector (scraper.py detect_language)                       *)
(* ------------------------------------------------------------------ *)
\* detect_language returning the answer as the model gave it
detect_language_unstripped(gemini_api_key, ai) ==
    IF ~Truthy(gemini_api_key) THEN [res |-> "unknown", ev |-> <<>>]
    ELSE IF ai.ok
         THEN [res |-> ai.val, ev |-> <<"generate_content:detect">>]
         ELSE [res |-> "unknown", ev |-> <<"generate_content:detect">>]

\* ai: the outcome of generate_content, Ok(text) or Raise(kind)
detect_language(gemini_api_key, ai) ==
    IF ~Truthy(gemini_api_key) THEN Result("unknown", <<>>)
    ELSE IF ai.ok
         THEN Result(lower(strip(ai.val)), <<"generate_content:detect">>)
         ELSE Result("unknown", <<"generate_content:detect">>)

(* ------------------------------------------------------------------ *)
(* Video strategy (scraper.py get_video_metadata, try_video_extraction) *)
(* ------------------------------------------------------------------ *)
\* oembed: the outcome of requests.get, Ok([ok, body]) or Raise(kind);
\* body is the JSON value of the response, or Invalid
get_video_metadata(platform, oembed) ==
    LET empty == [title |-> PyStr(""), author |-> PyStr(""),
                  thumbnail_url |-> PyStr("")]
    IN IF platform \notin {"tiktok", "youtube"} THEN Result(empty, <<>>)
       ELSE Result(
              IF oembed.ok /\ oembed.val.ok /\ oembed.val.body # Invalid
                           /\ oembed.val.body.k = "dict"
              THEN LET od == oembed.val.body.d
                   IN [title |-> get(od, "title", PyStr("")),
                       author |-> get(od, "author_name", PyStr("")),
                       thumbnail_url |-> get(od, "thumbnail_url", PyStr(""))]
              ELSE empty,
              <<"oembed.get">>)

\* try_video_extraction returning the record as normalized from the
\* model's answer
try_video_extraction_trusting(u, platform, gemini_api_key, oembed, stored, ai) ==
    IF ~Truthy(gemini_api_key) THEN Result(Raise("ValueError"), <<>>)
    ELSE LET md == get_video_metadata(platform, oembed)
             uploaded_image ==
                 upload_image_if_configured(md.res["thumbnail_url"], stored)
             platform_name == capitalize(platform)
             ev == md.ev \o <<"upload_image", "generate_content:video">>
         IN IF ~ai.ok THEN Result(Raise(ai.exc), ev)
            ELSE LET result == json_loads(ai.val) IN
                 IF ~result.ok THEN Result(result, ev)
                 ELSE LET validated_result == validate_recipe_structure(result.val) IN
                      IF ~validated_result.ok THEN Result(validated_result, ev)
                      ELSE Result(
                             validated_result,
                             ev)

try_video_extraction(u, platform, gemini_api_key, oembed, stored, ai) ==
    IF ~Truthy(gemini_api_key) THEN Result(Raise("ValueError"), <<>>)
    ELSE LET md == get_video_metadata(platform, oembed)
             uploaded_image ==
                 upload_image_if_configured(md.res["thumbnail_url"], stored)
             platform_name == capitalize(platform)
             ev == md.ev \o <<"upload_image", "generate_content:video">>
         IN IF ~ai.ok THEN Result(Raise(ai.exc), ev)
            ELSE LET result == json_loads(ai.val) IN
                 IF ~result.ok THEN Result(result, ev)
                 ELSE LET validated_result == validate_recipe_structure(result.val) IN
                      IF ~validated_result.ok THEN Result(validated_result, ev)
                      ELSE Result(
                             Ok([validated_result.val EXCEPT
                                   !["url"] = PyStr(u),
                                   !["host"] = PyStr(platform_name),
                                   !["image"] = PyDict([url |-> uploaded_image["url"],
                                                        key |-> uploaded_image["key"]])]),
                             ev)

(* ------------------------------------------------------------------ *)
(* Structured-scraper strategy (scraper.py try_recipe_scraper,          *)
(* format_recipe_scrapers_data)                                         *)
(* ------------------------------------------------------------------ *)
format_recipe_scrapers_data(scraper_data, stored) ==
    LET yields_a == get(scraper_data, "yields", PyStr(""))
        yields_str == IF Truthy(yields_a) THEN yields_a
                      ELSE get(scraper_data, "servings", PyStr(""))
        uploaded_image ==
            upload_image_if_configured(get(scraper_data, "image", PyStr("")), stored)
        ingredients == get(scraper_data, "ingredients", PyList(<<>>))
        instructions == get(scraper_data, "instructions", PyStr(""))
    IN [template EXCEPT
          !["title"] = get(scraper_data, "title", PyStr("")),
          !["description"] = get(scraper_data, "description", PyStr("")),
          !["prep_time"] =
              PyInt(parse_time_to_minutes(get(scraper_data, "prep_time", PyStr("")))),
          !["cook_time"] =
              PyInt(parse_time_to_minutes(get(scraper_data, "cook_time", PyStr("")))),
          !["total_time"] =
              PyInt(parse_time_to_minutes(get(scraper_data, "total_time", PyStr("")))),
          !["yields"] = PyInt(parse_servings_to_int(yields_str)),
          !["image"] = PyDict([url |-> uploaded_image["url"],
                               key |-> uploaded_image["key"]]),
          !["url"] = get(scraper_data, "url", PyStr("")),
          !["host"] = get(scraper_data, "host", PyStr("")),
          !["ingredients"] =
              IF isinstance(ingredients, "list")
              THEN PyList(str_truthy(ingredients.l))
              ELSE IF Truthy(ingredients)
                   THEN PyList(<<PyStr(str(ingredients))>>)
                   ELSE PyList(<<>>),
          !["instructions"] =
              IF isinstance(instructions, "list")
              THEN PyList(str_truthy(instructions.l))
              ELSE IF isinstance(instructions, "str")
                   THEN PyList(strip_nonempty(split_newline(instructions.s, "")))
                   ELSE PyList(<<>>)]

\* lib: the outcome of scrape_me(url).to_json(), Ok(dict) or Raise(kind)
try_recipe_scraper(lib, stored) ==
    IF ~lib.ok THEN Result(Raise(lib.exc), <<"scrape_me">>)
    ELSE Result(Ok(format_recipe_scrapers_data(lib.val, stored)),
                <<"scrape_me", "upload_image">>)

(* ------------------------------------------------------------------ *)
(* AI-assisted formatter (scraper.py format_with_gemini)                *)
(* ------------------------------------------------------------------ *)
format_with_gemini(gemini_api_key, ai) ==
    IF ~Truthy(gemini_api_key)
    THEN Result(Raise("ValueError"), <<"format_with_gemini">>)
    ELSE LET ev == <<"format_with_gemini", "generate_content:format">> IN
         IF ~ai.ok THEN Result(Raise(ai.exc), ev)
         ELSE LET formatted_recipe == json_loads(strip_fence(ai.val)) IN
              IF ~formatted_recipe.ok THEN Result(Raise("ValueError"), ev)
              ELSE Result(validate_recipe_structure(formatted_recipe.val), ev)

(* ------------------------------------------------------------------ *)
(* Embedded-structured-data strategy (scraper.py is_recipe_data,        *)
(* try_json_ld)                                                         *)
(* ------------------------------------------------------------------ *)
\* item_type in ["Recipe", "FoodRecipe"]
is_recipe_type(item_type) ==
    item_type \in {PyStr("Recipe"), PyStr("FoodRecipe")}

is_recipe_data(d) ==
    LET item_type == get(d, "@type", PyStr("")) IN
    \/ is_recipe_type(item_type)
    \/ contains(lower(str(item_type)), "recipe")
    \/ \E field \in {"recipeIngredient", "ingredients", "recipeInstructions"} :
           field \in DOMAIN d

\* the first entry of a list that is a dict satisfying the predicate, or None
RECURSIVE first_recipe_item(_)
first_recipe_item(l) ==
    IF l = <<>> THEN None
    ELSE IF isinstance(Head(l), "dict") /\ is_recipe_data(Head(l).d)
         THEN Head(l)
         ELSE first_recipe_item(Tail(l))

\* The body of the loop over the scripts for one block: Ok(recipe_data) with
\* the dict found or None, or Raise for an exception, which the loop
\* catches to go on with the next block.  Malformed is a block whose text
\* json.loads rejects.
Malformed == Invalid

scan_block(data) ==
    IF data = Malformed THEN Raise("JSONDecodeError")
    ELSE IF isinstance(data, "list") THEN Ok(first_recipe_item(data.l))
    ELSE IF isinstance(data, "dict")
    THEN LET item_type == get(data.d, "@type", PyStr("")) IN
         IF is_recipe_type(item_type) THEN Ok(data)
         ELSE IF ~isinstance(item_type, "str") THEN Raise("AttributeError")
         ELSE IF contains(lower(item_type.s), "recipe") THEN Ok(data)
         ELSE IF "@graph" \in DOMAIN data.d /\ isinstance(data.d["@graph"], "list")
              THEN Ok(first_recipe_item(data.d["@graph"].l))
              ELSE IF is_recipe_data(data.d) THEN Ok(data) ELSE Ok(None)
    ELSE Ok(None)

\* the loop over the scripts: the recipe_data it ends with
RECURSIVE scan_scripts(_)
scan_scripts(scripts) ==
    IF scripts = <<>> THEN None
    ELSE LET found == scan_block(Head(scripts)) IN
         IF found.ok /\ Truthy(found.val) THEN found.val
         ELSE scan_scripts(Tail(scripts))

\* the number of blocks the loop has taken from scripts when it ends
RECURSIVE blocks_scanned(_)
blocks_scanned(scripts) ==
    IF scripts = <<>> THEN 0
    ELSE LET found == scan_block(Head(scripts)) IN
         IF found.ok /\ Truthy(found.val) THEN 1
         ELSE 1 + blocks_scanned(Tail(scripts))

\* http: the outcome of requests.get and raise_for_status, Ok(scripts) with
\* the ld+json blocks of the page in document order, or Raise(kind)
try_json_ld(gemini_api_key, http, ai, stored) ==
    IF ~http.ok THEN Result(Raise(http.exc), <<"requests.get">>)
    ELSE LET recipe == scan_scripts(http.val) IN
         IF ~Truthy(recipe) THEN Result(Raise("ValueError"), <<"requests.get">>)
         ELSE LET formatted_recipe == format_with_gemini(gemini_api_key, ai)
                  ev == <<"requests.get">> \o formatted_recipe.ev
              IN IF ~formatted_recipe.res.ok THEN Result(formatted_recipe.res, ev)
                 ELSE LET rec == formatted_recipe.res.val IN
                      IF Truthy(rec["image"])
                      THEN LET image_url ==
                                   IF isinstance(rec["image"], "dict")
                                   THEN get(rec["image"].d, "url", None)
                                   ELSE rec["image"]
                               uploaded_image ==
                                   upload_image_if_configured(image_url, stored)
                           IN Result(
                                Ok([rec EXCEPT !["image"] =
                                      PyDict([url |-> uploaded_image["url"],
                                              key |-> uploaded_image["key"]])]),
                                ev \o <<"upload_image">>)
                      ELSE Result(Ok(rec), ev)

(* ------------------------------------------------------------------ *)
(* AI-full-page strategy (scraper.py try_gemini_extraction)             *)
(* ------------------------------------------------------------------ *)
try_gemini_extraction(gemini_api_key, http, ai, stored) ==
    IF ~Truthy(gemini_api_key) THEN Result(Raise("ValueError"), <<>>)
    ELSE IF ~http.ok THEN Result(Raise(http.exc), <<"requests.get">>)
    ELSE LET ev == <<"requests.get", "generate_content:extract">> IN
         IF ~ai.ok THEN Result(Raise(ai.exc), ev)
         ELSE LET result == json_loads(strip_fence(ai.val)) IN
              IF ~result.ok THEN Result(Raise("ValueError"), ev)
              ELSE LET validated_result == validate_recipe_structure(result.val) IN
                   IF ~validated_result.ok THEN Result(validated_result, ev)
                   ELSE LET rec == validated_result.val
                            image_url ==
                                IF isinstance(rec["image"], "dict")
                                THEN get(rec["image"].d, "url", None)
                                ELSE rec["image"]
                            uploaded_image ==
                                upload_image_if_configured(image_url, stored)
                        IN IF Truthy(rec["image"]) /\ Truthy(image_url)
                           THEN Result(
                                  Ok([rec EXCEPT !["image"] =
                                        PyDict([url |-> uploaded_image["url"],
                                                key |-> uploaded_image["key"]])]),
                                  ev \o <<"upload_image">>)
                           ELSE Result(Ok(rec), ev)

(* ------------------------------------------------------------------ *)
(* Translation Step (scraper.py translate_recipe)                       *)
(* ------------------------------------------------------------------ *)
\* dict.update(translated_data): the keys of a dict are merged; an empty
\* list is an empty sequence of pairs; None, a number or a bool raises
\* TypeError and a non-empty str ValueError
merge_translation(recipe, translated_data) ==
    CASE translated_data.k = "dict" -> Ok(update(recipe, translated_data.d))
      [] translated_data.k = "list" /\ translated_data.l = <<>> -> Ok(recipe)
      [] translated_data.k = "str" /\ translated_data.s = "" -> Ok(recipe)
      [] translated_data.k \in {"str", "list"} -> Raise("ValueError")
      [] OTHER -> Raise("TypeError")

\* translate_recipe returning the record untranslated when the AI call or
\* the parsing fails
translate_recipe_lenient(recipe, target_language, gemini_api_key, detect, ai) ==
    IF ~Truthy(gemini_api_key) THEN Result(Raise("ValueError"), <<>>)
    ELSE LET current_language == detect_language(gemini_api_key, detect) IN
         IF lower(current_language.res) = lower(target_language)
         THEN Result(Ok(recipe), current_language.ev)
         ELSE LET ev == current_language.ev \o <<"generate_content:translate">> IN
              IF ~ai.ok THEN Result(Ok(recipe), ev)
              ELSE LET translated_data == json_loads(ai.val) IN
                   IF ~translated_data.ok THEN Result(Ok(recipe), ev)
                   ELSE Result(merge_translation(recipe, translated_data.val), ev)

\* detect, ai: the outcomes of the two generate_content calls
translate_recipe(recipe, target_language, gemini_api_key, detect, ai) ==
    IF ~Truthy(gemini_api_key) THEN Result(Raise("ValueError"), <<>>)
    ELSE LET current_language == detect_language(gemini_api_key, detect) IN
         IF lower(current_language.res) = lower(target_language)
         THEN Result(Ok(recipe), current_language.ev)
         ELSE LET ev == current_language.ev \o <<"generate_content:translate">> IN
              IF ~ai.ok THEN Result(Raise(ai.exc), ev)
              ELSE LET translated_data == json_loads(ai.val) IN
                   IF ~translated_data.ok THEN Result(translated_data, ev)
                   ELSE Result(merge_translation(recipe, translated_data.val), ev)

(* ------------------------------------------------------------------ *)
(* State                                                                *)
(* ------------------------------------------------------------------ *)
VARIABLES
    gemini_api_key, \* app.py module global, set once at startup
    pc,             \* position of the request in scrape_recipe
    url,            \* the url query parameter
    language,       \* the language query parameter
    platform,       \* get_platform(url)
    data,           \* the local data of scrape_recipe
    source,         \* the local source of scrape_recipe
    trace,          \* the calls made for the request, in order
    errors,         \* the exceptions the strategies raised: <<strategy, kind>>
    translation,    \* the call of translate_recipe, if any
    response,       \* what the request returned
    video,          \* the call of try_video_extraction, if any: what the
                    \* oEmbed endpoint, the image store and the AI model answered
    others,         \* steps other requests have taken so far
    scripts,        \* the ld+json blocks of a page, in document order
    scanned,        \* the recipe_data the scan of the page ends with
    jsonld,         \* the outcome of try_json_ld on the page
    npc,            \* position of the normalizer run: "raw", "validated", "revalidated"
    recipe_data,    \* the argument of validate_recipe_structure
    validated,      \* its outcome
    revalidated     \* the outcome of validating that result again

pvars == <<gemini_api_key, pc, url, language, platform, data, source, trace,
           errors, translation, response, video>>

svars == <<scripts, scanned, jsonld>>

nvars == <<npc, recipe_data, validated, revalidated>>

vars == <<gemini_api_key, pc, url, language, platform, data, source, trace,
          errors, translation, response, video, template, others,
          scripts, scanned, jsonld, npc, recipe_data, validated, revalidated>>

NotCalled == Raise("-")
NoTranslation == [called |-> FALSE]
NoResponse == [status |-> 0]
NoVideo == [called |-> FALSE]

(* ------------------------------------------------------------------ *)
(* Requests and collaborator responses                                  *)
(* ------------------------------------------------------------------ *)
Urls == {"https://site.com/r", "https://www.TikTok.com/@a/v/1", "https://youtu.be/x"}

Languages == {"english", "English", "ENGLISH", "spanish", "Spanish", "unknown"}

ApiKeys == {None, PyStr("key")}

\* what the site-scraping library returns for a page
LibRecipe ==
    [title |-> PyStr("Pasta"),
     description |-> PyStr("Quick pasta"),
     prep_time |-> PyStr("PT45M"),
     cook_time |-> PyStr("1 hour 30 min"),
     total_time |-> PyStr("soon"),
     yields |-> PyStr("4-6 servings"),
     image |-> PyStr("http://img/p.jpg"),
     url |-> PyStr("https://site.com/canonical"),
     host |-> PyStr("site.com"),
     ingredients |-> PyList(<<PyStr("1 onion"), PyStr(""), PyStr("200 g pasta")>>),
     instructions |-> PyStr("Boil pasta\n\n Serve \n")]

LibSparse ==
    [title |-> PyStr("Soup"),
     yields |-> PyStr(""),
     servings |-> PyStr("Serves 8"),
     ingredients |-> PyStr("water"),
     instructions |-> PyList(<<PyStr("Heat"), None>>)]

ScraperResponses ==
    {Raise("WebsiteNotImplementedError"), Raise("ConnectionError"),
     Ok(LibRecipe), Ok(LibSparse)}

\* ld+json blocks
LdRecipe ==
    ("@type" :> PyStr("Recipe")) @@ ("name" :> PyStr("Pasta"))
        @@ ("recipeIngredient" :> PyList(<<PyStr("1 onion")>>))
LdFoodRecipe == ("@type" :> PyStr("foodRecipe")) @@ ("name" :> PyStr("Soup"))
LdWebSite == ("@type" :> PyStr("WebSite")) @@ ("name" :> PyStr("site"))
LdUntyped == ("name" :> PyStr("Pasta")) @@ ("recipeInstructions" :> PyStr("Boil"))
LdTypeList ==
    ("@type" :> PyList(<<PyStr("Recipe"), PyStr("NewsArticle")>>))
        @@ ("name" :> PyStr("Pasta"))
LdGraph ==
    ("@type" :> PyStr("Graph"))
        @@ ("@graph" :> PyList(<<PyDict(LdWebSite), PyStr("x"), PyDict(LdFoodRecipe)>>))

Pages ==
    {<<>>,
     <<PyDict(LdWebSite)>>,
     <<Malformed, PyDict(LdRecipe)>>,
     <<PyList(<<PyDict(LdWebSite), PyDict(LdUntyped)>>)>>,
     <<PyDict(LdWebSite), PyDict(LdGraph)>>,
     <<PyDict(LdUntyped)>>,
     <<PyDict(LdTypeList)>>}

HttpResponses ==
    {Raise("ConnectionError"), Raise("HTTPError")} \cup {Ok(p) : p \in Pages}

\* JSON objects the AI model may return for an extraction
AiRecipe == [SampleRecord EXCEPT !["url"] = PyStr("http://ai-guess/")]

AiMessy ==
    [title |-> PyInt(5),
     prep_time |-> PyStr("1 hour 30 min"),
     cook_time |-> PyInt(-5),
     yields |-> PyStr("4-6 servings"),
     ingredients |-> PyStr("1 onion"),
     image |-> PyStr("http://img/a.jpg"),
     extra |-> PyStr("x")]

AiBodies ==
    {Invalid, None, PyList(<<>>), PyDict(EmptyDict), PyDict(AiRecipe), PyDict(AiMessy)}

AiResponses ==
    {Raise("ResourceExhausted")}
        \cup {Ok(Text(fence, body)) : fence \in BOOLEAN, body \in AiBodies}

OembedResponses ==
    {Raise("Timeout"),
     Ok([ok |-> FALSE, body |-> Invalid]),
     Ok([ok |-> TRUE, body |-> Invalid]),
     Ok([ok |-> TRUE,
         body |-> PyDict([title |-> PyStr("Pasta video"),
                          author_name |-> PyStr("chef"),
                          thumbnail_url |-> PyStr("http://img/t.jpg")])])}

\* answers of the language-detection call
DetectResponses ==
    {Raise("ResourceExhausted"), Ok("English"), Ok(" Spanish\n")}

\* JSON objects the AI model may return for a translation
Translated ==
    [title |-> PyStr("Pasta (es)"),
     description |-> PyStr("Pasta rapida"),
     ingredients |-> PyList(<<PyStr("1 cebolla")>>),
     instructions |-> PyList(<<PyStr("Hervir")>>)]

TranslatedBeyond ==
    [title |-> PyStr("Pasta (es)"),
     url |-> PyStr("http://ai-guess/es"),
     prep_time |-> PyStr("diez"),
     notes |-> PyStr("buen provecho")]

TranslationResponses ==
    {Raise("ResourceExhausted"),
     Ok(Text(TRUE, PyDict(Translated)))}
        \cup {Ok(Text(FALSE, body)) :
                 body \in {Invalid, None, PyList(<<>>), PyDict(Translated),
                           PyDict(TranslatedBeyond)}}

(* ------------------------------------------------------------------ *)
(* Orchestrator (app.py scrape_recipe)                                  *)
(* ------------------------------------------------------------------ *)
\* on_failure with a failure of the second strategy ending the request
on_failure_no_third(p) ==
    CASE p = "step1" -> "step2"
      [] OTHER -> "failed"

\* on_failure with the video strategy falling back to the website chain
on_failure_video_fallback(p) ==
    CASE p = "step1" -> "step2"
      [] p = "step2" -> "step3"
      [] p = "video" -> "step1"
      [] OTHER -> "failed"

\* where the request goes when the strategy run at position p raises:
\* the except clauses of the nested try statements
on_failure(p) ==
    CASE p = "step1" -> "step2"
      [] p = "step2" -> "step3"
      [] OTHER -> "failed"

\* on_success with the first strategy falling through to the second
on_success_fallthrough(p) == IF p = "step1" THEN "step2" ELSE "extracted"

\* where the request goes when the strategy run at position p returns
on_success(p) == "extracted"

\* translation_requested comparing the letters as given
translation_requested_cased(lang) == lang # "english"

\* the test that guards the Translation Step
translation_requested(lang) == lower(lang) # "english"

\* translated_source with the language in lower case
translated_source_lowered(src, lang) == src \o "-translated-" \o lower(lang)

\* the source label after translation
translated_source(src, lang) == src \o "-translated-" \o lang

\* the source label of the video strategy
video_source(plat) == plat \o "-video"

\* the except clause of scrape_recipe: HTTP 500 with the error kind name
ErrorResponse(exc) ==
    [status |-> 500, success |-> FALSE,
     message |-> "Cannot scrape recipe from this site", error_type |-> exc]

SuccessResponse(src, rec) ==
    [status |-> 200, success |-> TRUE, source |-> src, data |-> rec]

Init ==
    /\ gemini_api_key \in ApiKeys
    /\ pc = "idle"
    /\ url = ""
    /\ language = ""
    /\ platform = ""
    /\ data = EmptyDict
    /\ source = ""
    /\ trace = <<>>
    /\ errors = <<>>
    /\ translation = NoTranslation
    /\ response = NoResponse
    /\ video = NoVideo
    /\ template = UNIFIED_RECIPE_FORMAT
    /\ others = 0
    /\ scripts = <<>>
    /\ scanned = NotCalled
    /\ jsonld = NotCalled
    /\ npc = "off"
    /\ recipe_data = None
    /\ validated = NotCalled
    /\ revalidated = NotCalled

\* a request arrives and is classified
ScrapeRequest ==
    /\ pc = "idle"
    /\ \E u \in Urls, lang \in Languages :
          /\ url' = u
          /\ language' = lang
          /\ platform' = get_platform(u)
          /\ pc' = IF get_platform(u) \in {"tiktok", "youtube"} THEN "video" ELSE "step1"
    /\ UNCHANGED <<gemini_api_key, data, source, trace, errors, translation,
                   response, video, template, others>>
    /\ UNCHANGED <<nvars, svars>>

\* the strategy named strategy, called at position pc, came back with r
Attempt(strategy, r, label) ==
    /\ trace' = trace \o <<strategy>> \o r.ev
    /\ IF r.res.ok
       THEN /\ data' = r.res.val
            /\ source' = label
            /\ pc' = on_success(pc)
            /\ template' = template_after_build(template, r.res.val)
            /\ UNCHANGED <<errors, response>>
       ELSE /\ errors' = Append(errors, <<strategy, r.res.exc>>)
            /\ pc' = IF on_failure(pc) = "failed" THEN "done" ELSE on_failure(pc)
            /\ response' = IF on_failure(pc) = "failed"
                           THEN ErrorResponse(r.res.exc) ELSE response
            /\ UNCHANGED <<data, source, template>>
    /\ UNCHANGED <<gemini_api_key, url, language, platform, translation, others>>
    /\ UNCHANGED <<nvars, svars>>

TryVideoExtraction ==
    /\ pc = "video"
    /\ \E oembed \in OembedResponses, stored \in BOOLEAN, ai \in AiResponses :
          /\ Attempt("try_video_extraction",
                     try_video_extraction(url, platform, gemini_api_key, oembed,
                                          stored, ai),
                     video_source(platform))
          /\ video' = [called |-> TRUE, oembed |-> oembed, stored |-> stored,
                       ai |-> ai, after |-> others]

TryRecipeScraper ==
    /\ pc = "step1"
    /\ \E lib \in ScraperResponses, stored \in BOOLEAN :
          Attempt("try_recipe_scraper", try_recipe_scraper(lib, stored),
                  "recipe-scraper")
    /\ UNCHANGED video

TryJsonLd ==
    /\ pc = "step2"
    /\ \E http \in HttpResponses, ai \in AiResponses, stored \in BOOLEAN :
          Attempt("try_json_ld", try_json_ld(gemini_api_key, http, ai, stored),
                  "json-ld")
    /\ UNCHANGED video

TryGeminiExtraction ==
    /\ pc = "step3"
    /\ \E http \in HttpResponses, ai \in AiResponses, stored \in BOOLEAN :
          Attempt("try_gemini_extraction",
                  try_gemini_extraction(gemini_api_key, http, ai, stored),
                  "gemini")
    /\ UNCHANGED video

\* extraction succeeded and the target language is English: respond
Respond ==
    /\ pc = "extracted"
    /\ ~translation_requested(language)
    /\ response' = SuccessResponse(source, data)
    /\ pc' = "done"
    /\ UNCHANGED <<gemini_api_key, url, language, platform, data, source, trace,
                   errors, translation, video, template, others>>
    /\ UNCHANGED <<nvars, svars>>

\* extraction succeeded and another target language is asked for:
\* translate, then respond
TranslateAndRespond ==
    /\ pc = "extracted"
    /\ translation_requested(language)
    /\ \E detect \in DetectResponses, ai \in TranslationResponses :
          LET r == translate_recipe(data, language, gemini_api_key, detect, ai) IN
          /\ trace' = trace \o <<"translate_recipe">> \o r.ev
          /\ translation' = [called |-> TRUE, input |-> data, detect |-> detect,
                             ai |-> ai, result |-> r.res]
          /\ IF r.res.ok
             THEN /\ data' = r.res.val
                  /\ source' = translated_source(source, language)
                  /\ response' = SuccessResponse(translated_source(source, language),
                                                 r.res.val)
                  /\ UNCHANGED errors
             ELSE /\ errors' = Append(errors, <<"translate_recipe", r.res.exc>>)
                  /\ response' = ErrorResponse(r.res.exc)
                  /\ UNCHANGED <<data, source>>
    /\ pc' = "done"
    /\ UNCHANGED <<gemini_api_key, url, language, platform, video, template, others>>
    /\ UNCHANGED <<nvars, svars>>

Next ==
    \/ ScrapeRequest
    \/ TryVideoExtraction
    \/ TryRecipeScraper
    \/ TryJsonLd
    \/ TryGeminiExtraction
    \/ Respond
    \/ TranslateAndRespond

Spec == Init /\ [][Next]_vars

(* ------------------------------------------------------------------ *)
(* Observations on a request                                            *)
(* ------------------------------------------------------------------ *)
WebsiteChain == <<"try_recipe_scraper", "try_json_ld", "try_gemini_extraction">>

Strategies == {"try_recipe_scraper", "try_json_ld", "try_gemini_extraction",
               "try_video_extraction"}

IsStrategy(e) == e \in Strategies

\* the strategies invoked so far, in order of invocation
Invoked == SelectSeq(trace, IsStrategy)

IsStrategyError(e) == e[1] \in Strategies

\* the strategies that failed so far, in order, and their error kinds
Failed == [i \in 1..Len(SelectSeq(errors, IsStrategyError)) |->
              SelectSeq(errors, IsStrategyError)[i][1]]
FailedKind == [i \in 1..Len(SelectSeq(errors, IsStrategyError)) |->
                  SelectSeq(errors, IsStrategyError)[i][2]]

IsPrefix(a, b) == Len(a) <= Len(b) /\ a = SubSeq(b, 1, Len(a))

Count(seq, e) == Cardinality({i \in 1..Len(seq) : seq[i] = e})

Positions(seq, S) == {i \in 1..Len(seq) : seq[i] \in S}

\* a strategy returned a record
Extracted == Len(Invoked) = Len(Failed) + 1

\* the request ended because no strategy returned a record
ExtractionFailed == response.status = 500 /\ ~translation.called

(* ------------------------------------------------------------------ *)
(* Properties of the orchestrator                                       *)
(* ------------------------------------------------------------------ *)
\* C1: for a website request the strategies are invoked in the order
\* structured-scraper, JSON-LD, AI-full-page, each at most once, each only
\* after every earlier one failed, and none after one succeeded.
C1_FallbackOrder ==
    platform = "website" =>
        /\ IsPrefix(Invoked, WebsiteChain)
        /\ IsPrefix(Failed, Invoked)
        /\ Len(Invoked) <= Len(Failed) + 1
        /\ \A st \in Strategies : Count(trace, st) <= 1
        /\ (Extracted /\ Invoked = <<"try_recipe_scraper">>) =>
               /\ Count(trace, "try_json_ld") = 0
               /\ Count(trace, "try_gemini_extraction") = 0

\* the structured scraper failed, JSON-LD succeeded and the request ended
\* without the AI-full-page strategy
C1_Witness ==
    /\ platform = "website"
    /\ pc = "done"
    /\ Invoked = <<"try_recipe_scraper", "try_json_ld">>
    /\ Failed = <<"try_recipe_scraper">>
    /\ response.status = 200

\* C2: in the website chain extraction fails if and only if all three
\* strategies failed, and the error kind reported is then the one the
\* AI-full-page strategy raised.
C2_OnlyLastFailurePropagates ==
    platform = "website" =>
        /\ ExtractionFailed <=> Failed = WebsiteChain
        /\ ExtractionFailed => response = ErrorResponse(FailedKind[3])
        /\ (pc = "done" /\ Failed # WebsiteChain) => Extracted

\* all three strategies failed, the first two with another kind than the last
C2_Witness ==
    /\ platform = "website"
    /\ Failed = WebsiteChain
    /\ FailedKind = <<"WebsiteNotImplementedError", "ValueError", "HTTPError">>
    /\ response.status = 500
    /\ response.error_type = "HTTPError"

\* C3: for a tiktok or youtube request the video strategy is invoked
\* exactly once, no website strategy is invoked, and a failure of the
\* video strategy is the failure of the request, with its error kind.
C3_VideoNoFallback ==
    platform \in {"tiktok", "youtube"} =>
        /\ IsPrefix(Invoked, <<"try_video_extraction">>)
        /\ pc \notin {"idle", "video"} => Invoked = <<"try_video_extraction">>
        /\ Failed # <<>> =>
              /\ pc = "done"
              /\ response = ErrorResponse(FailedKind[1])

\* a video request failed in the video strategy
C3_Witness ==
    /\ platform = "tiktok"
    /\ pc = "done"
    /\ Failed = <<"try_video_extraction">>
    /\ response.status = 500
    /\ response.error_type = "JSONDecodeError"

C4_WitnessEnglish ==
    pc = "done" /\ language = "ENGLISH" /\ Extracted /\ ~translation.called

\* the base label of a strategy
BaseLabel(strategy) ==
    CASE strategy = "try_recipe_scraper" -> "recipe-scraper"
      [] strategy = "try_json_ld" -> "json-ld"
      [] strategy = "try_gemini_extraction" -> "gemini"
      [] strategy = "try_video_extraction" -> platform \o "-video"

\* C5: the source label of a successful response is the base label of the
\* strategy that produced the record, with -translated-{language} appended
\* if translation ran; with target language "english" nothing is appended.
C5_SourceLabel ==
    (response.status = 200) =>
        /\ Extracted
        /\ response.source =
              IF translation.called
              THEN BaseLabel(Invoked[Len(Invoked)]) \o "-translated-" \o language
              ELSE BaseLabel(Invoked[Len(Invoked)])
        /\ language = "english" => response.source = BaseLabel(Invoked[Len(Invoked)])

\* the AI-full-page strategy succeeded and its record was translated
C5_Witness ==
    /\ response.status = 200
    /\ response.source = "gemini-translated-Spanish"
    /\ language = "Spanish"

(* ------------------------------------------------------------------ *)
(* Properties of the Translation Step                                   *)
(* ------------------------------------------------------------------ *)
\* the language-detection call was made and raised
DetectorCallFailed ==
    /\ translation.called
    /\ Count(trace, "generate_content:detect") = 1
    /\ ~translation.detect.ok

\* the AI translation call was made and raised, or its text is no JSON
TranslationCallFailed ==
    /\ translation.called
    /\ Count(trace, "generate_content:translate") = 1
    /\ \/ ~translation.ai.ok
       \/ ~json_loads(translation.ai.val).ok

\* C6 as stated: whenever the Translation Step is invoked and a sub-step
\* fails (no detector for lack of a key, detector call, translation call,
\* JSON parsing), the request ends in the failure response.
C6_AllOrNothing_Original ==
    (translation.called /\ (\/ ~Truthy(gemini_api_key)
                            \/ DetectorCallFailed
                            \/ TranslationCallFailed))
        => response.status = 500

\* C6 amended: a missing key, a failed AI translation call and unparseable
\* translation text end the request in the failure response with that
\* error kind; a failed detector call does not: the language is then taken
\* as "unknown", the translation call is made unless the target language is
\* "unknown", and the request succeeds when that call does.
C6_AllOrNothing ==
    translation.called =>
        /\ ~Truthy(gemini_api_key) => response = ErrorResponse("ValueError")
        /\ TranslationCallFailed =>
              response = ErrorResponse(IF translation.ai.ok THEN "JSONDecodeError"
                                       ELSE translation.ai.exc)
        /\ ~translation.result.ok <=> response.status = 500
        /\ DetectorCallFailed =>
              /\ Count(trace, "generate_content:translate") = 1
                    <=> lower(language) # "unknown"
              /\ (lower(language) = "unknown") => response.status = 200
              /\ (lower(language) # "unknown" /\ ~TranslationCallFailed
                    /\ translation.ai.val.body.k = "dict") => response.status = 200

\* the detector call failed and the request succeeded with a translation
C6_Witness ==
    /\ DetectorCallFailed
    /\ Count(trace, "generate_content:translate") = 1
    /\ response.status = 200
    /\ response.data["title"] = PyStr("Pasta (es)")

\* the translation call failed and the request failed
C6_WitnessFailure ==
    /\ TranslationCallFailed
    /\ response.status = 500

\* C7: when the detector's answer equals the target language, letter case
\* aside, the Translation Step returns its input record unchanged and makes
\* no AI translation call; the response carries that record under the
\* translated label.
C7_TranslationNoOp ==
    (/\ translation.called
     /\ Count(trace, "generate_content:detect") = 1
     /\ translation.detect.ok
     /\ lower(strip(translation.detect.val)) = lower(language))
        => /\ translation.result = Ok(translation.input)
           /\ Count(trace, "generate_content:translate") = 0
           /\ response.status = 200
           /\ response.data = translation.input
           /\ data = translation.input

\* the detector answered " Spanish\n" for the target "spanish"
C7_Witness ==
    /\ translation.called
    /\ translation.detect = Ok(" Spanish\n")
    /\ language = "spanish"
    /\ Count(trace, "generate_content:detect") = 1
    /\ response.status = 200
    /\ translation.input["title"] = PyStr("Pasta")

PreservedFields ==
    {"prep_time", "cook_time", "total_time", "yields", "image", "url", "host"}

\* C8 as stated: the record a successful Translation Step returns has the
\* keys of its input record, and its timing, yields, image, url and host
\* values are those of the input record.
C8_TranslationPreservesShape ==
    (translation.called /\ translation.result.ok) =>
        /\ DOMAIN translation.result.val = DOMAIN translation.input
        /\ \A f \in PreservedFields :
               translation.result.val[f] = translation.input[f]

(* ------------------------------------------------------------------ *)
(* Properties of the records and of the calls                           *)
(* ------------------------------------------------------------------ *)
\* C11 as stated: in every successful response the url field of the
\* record is the URL of the request, whichever strategy produced it.
C11_RecordUrlIsRequestUrl ==
    response.status = 200 => response.data["url"] = PyStr(url)

\* the calls that start a strategy or the Translation Step
Markers == Strategies \cup {"translate_recipe"}

\* the calls that go to the network
NetworkCalls == {"requests.get", "oembed.get", "upload_image"}

Min(S) == CHOOSE x \in S : \A y \in S : x <= y

\* the calls made inside the call m, m a marker
Segment(m) ==
    IF Count(trace, m) = 0 THEN <<>>
    ELSE LET i == CHOOSE j \in 1..Len(trace) : trace[j] = m
             later == {j \in (i + 1)..Len(trace) : trace[j] \in Markers}
         IN SubSeq(trace, i + 1,
                   IF later = {} THEN Len(trace) ELSE Min(later) - 1)

NoNetworkCall(seq) == \A j \in 1..Len(seq) : seq[j] \notin NetworkCalls

\* C13 as stated: without an API key every strategy that needs the AI
\* model, and the Translation Step, fails with the configuration error
\* before any HTTP fetch, oEmbed fetch or image upload of its own.  (The
\* JSON-LD strategy raises the configuration error in format_with_gemini.)
C13_ConfigurationErrorBeforeNetwork ==
    ~Truthy(gemini_api_key) =>
        /\ NoNetworkCall(Segment("try_video_extraction"))
        /\ NoNetworkCall(Segment("try_gemini_extraction"))
        /\ NoNetworkCall(Segment("translate_recipe"))
        /\ Count(Segment("try_json_ld"), "format_with_gemini") = 1
              => NoNetworkCall(Segment("try_json_ld"))

\* the video strategy, the AI-full-page strategy and the Translation Step
\* test the key before anything else
KeyTestedFirst ==
    ~Truthy(gemini_api_key) =>
        /\ Segment("try_video_extraction") = <<>>
        /\ Segment("try_gemini_extraction") = <<>>
        /\ Segment("translate_recipe") = <<>>

\* the record the extraction returned (the translation, when there is one,
\* builds another record from it)
ExtractedRecord == IF translation.called THEN translation.input ELSE data

VideoSucceeded == video.called /\ Extracted /\ Failed = <<>>

\* the thumbnail the oEmbed endpoint gave, "" when the call failed in any way
ThumbnailGiven ==
    IF video.oembed.ok /\ video.oembed.val.ok /\ video.oembed.val.body # Invalid
    THEN video.oembed.val.body.d["thumbnail_url"]
    ELSE PyStr("")

PlatformName == CASE platform = "tiktok" -> "Tiktok"
                  [] platform = "youtube" -> "Youtube"
                  [] OTHER -> "Website"

\* the AI answered the video prompt with a JSON object
VideoAnswerIsObject ==
    /\ video.called /\ video.ai.ok
    /\ ~video.ai.val.fence
    /\ video.ai.val.body # Invalid
    /\ video.ai.val.body.k = "dict"

\* C14: whenever the video strategy succeeds its record has the request's
\* url, the capitalized platform name as host and, as image, the {url, key}
\* the thumbnail upload returned, and that upload came before the AI call;
\* with an API key and a JSON object as the AI's answer the strategy
\* succeeds whatever the oEmbed call did.
C14_VideoGroundTruth ==
    /\ VideoSucceeded =>
          /\ ExtractedRecord["url"] = PyStr(url)
          /\ ExtractedRecord["host"] = PyStr(PlatformName)
          /\ ExtractedRecord["image"] =
                 PyDict(upload_image_if_configured(ThumbnailGiven, video.stored))
          /\ \A i \in Positions(Segment("try_video_extraction"),
                                 {"generate_content:video"}) :
                 \E j \in Positions(Segment("try_video_extraction"),
                                    {"upload_image"}) : j < i
    /\ (VideoAnswerIsObject /\ Truthy(gemini_api_key)) => VideoSucceeded

\* the oEmbed call timed out and the AI guessed another url, yet the video
\* strategy returned a record
C14_Witness ==
    /\ VideoSucceeded
    /\ ~video.oembed.ok
    /\ video.ai.val.body = PyDict(AiRecipe)
    /\ ExtractedRecord["url"] # PyStr("http://ai-guess/")

(* ------------------------------------------------------------------ *)
(* Inputs of the normalizer                                             *)
(* ------------------------------------------------------------------ *)
\* values a producer (the AI model, a library) may put under a key
RawValues ==
    {None, PyBool(TRUE), PyBool(FALSE), PyInt(0), PyInt(30), PyInt(-5),
     PyFloat("1.5"), PyFloat("0.0"),
     PyStr(""), PyStr("Pasta"), PyStr("1 hour 30 min"), PyStr("4-6 servings"),
     PyList(<<>>), PyList(<<PyStr("1 onion"), PyInt(2)>>),
     PyDict(EmptyDict), PyDict([url |-> PyStr("http://img/p.jpg"), key |-> None])}

RawKeys == Fields \cup {"extra"}

\* base with the keys of K set to the values of f
Overlay(base, K, f) ==
    [key \in DOMAIN base \cup K |-> IF key \in K THEN f[key] ELSE base[key]]

\* the dicts that differ from the empty dict or from a canonical record
\* in at most n keys
RawDicts(n) ==
    UNION { UNION { { Overlay(base, K, f) : f \in [K -> RawValues] }
                    : K \in {K \in SUBSET RawKeys : Cardinality(K) <= n} }
            : base \in {EmptyDict, SampleRecord} }

\* what json.loads may return: a dict, or another JSON value
RawInputs(n) ==
    {PyDict(d) : d \in RawDicts(n)}
      \cup {None, PyInt(3), PyList(<<>>), PyList(<<PyStr("title")>>),
            PyStr("no recipe here"), PyStr("the title is missing")}

(* ------------------------------------------------------------------ *)
(* The normalizer applied to every input, and to its own result         *)
(* ------------------------------------------------------------------ *)
NormInit ==
    /\ npc = "raw"
    /\ recipe_data \in RawInputs(MaxKeys)
    /\ validated = NotCalled
    /\ revalidated = NotCalled
    /\ gemini_api_key = None
    /\ pc = "off"
    /\ url = ""
    /\ language = ""
    /\ platform = ""
    /\ data = EmptyDict
    /\ source = ""
    /\ trace = <<>>
    /\ errors = <<>>
    /\ translation = NoTranslation
    /\ response = NoResponse
    /\ video = NoVideo
    /\ template = UNIFIED_RECIPE_FORMAT
    /\ others = 0
    /\ scripts = <<>>
    /\ scanned = NotCalled
    /\ jsonld = NotCalled

Validate ==
    /\ npc = "raw"
    /\ validated' = validate_recipe_structure(recipe_data)
    /\ template' = IF validate_recipe_structure(recipe_data).ok
                   THEN template_after_build(template,
                            validate_recipe_structure(recipe_data).val)
                   ELSE template
    /\ npc' = "validated"
    /\ UNCHANGED <<recipe_data, revalidated, others>>
    /\ UNCHANGED <<pvars, svars>>

Revalidate ==
    /\ npc = "validated"
    /\ validated.ok
    /\ revalidated' = validate_recipe_structure(PyDict(validated.val))
    /\ template' = template_after_build(template,
                       validate_recipe_structure(PyDict(validated.val)).val)
    /\ npc' = "revalidated"
    /\ UNCHANGED <<recipe_data, validated, others>>
    /\ UNCHANGED <<pvars, svars>>

NormNext == Validate \/ Revalidate

SpecNorm == NormInit /\ [][NormNext]_vars

(* ------------------------------------------------------------------ *)
(* Properties of the normalizer                                         *)
(* ------------------------------------------------------------------ *)
StringFields == {"title", "description", "url", "host"}
IntFields == {"prep_time", "cook_time", "total_time", "yields"}
ListFields == {"ingredients", "instructions"}

\* the field typing of the canonical record
CanonicalTyped(d) ==
    /\ DOMAIN d = Fields
    /\ Cardinality(DOMAIN d) = 11
    /\ \A f \in StringFields : d[f].k = "str"
    /\ \A f \in IntFields : isinstance(d[f], "int")
    /\ \A f \in ListFields : d[f].k = "list"
    /\ d["image"].k = "dict"

\* C9: for every raw dict the Normalizer returns, without raising, a
\* record with exactly the eleven canonical fields, typed string / integer
\* / list / dict as the schema says, and a field absent from the input
\* keeps its zero-value.
C9_NormalizerTotalAndTyped ==
    (npc # "raw" /\ recipe_data.k = "dict") =>
        /\ validated.ok
        /\ CanonicalTyped(validated.val)
        /\ \A f \in Fields \ DOMAIN recipe_data.d :
               validated.val[f] = UNIFIED_RECIPE_FORMAT[f]

\* a raw dict with a wrongly typed field and an absent field was normalized
C9_Witness ==
    /\ npc = "validated"
    /\ recipe_data.k = "dict"
    /\ "prep_time" \in DOMAIN recipe_data.d
    /\ recipe_data.d["prep_time"] = PyStr("1 hour 30 min")
    /\ "image" \notin DOMAIN recipe_data.d
    /\ validated.ok
    /\ validated.val["prep_time"] = PyInt(90)

\* C10: the Normalizer leaves a canonically typed record as it is, and
\* normalizing the result of a normalization changes nothing.
C10_NormalizerIdempotent ==
    /\ (npc # "raw" /\ recipe_data.k = "dict" /\ CanonicalTyped(recipe_data.d))
          => validated = Ok(recipe_data.d)
    /\ (npc = "revalidated" /\ recipe_data.k = "dict")
          => revalidated = validated

\* a canonical record other than the sample, and a non-canonical raw
\* dict, both went through the normalizer twice
C10_Witness ==
    /\ npc = "revalidated"
    /\ recipe_data.k = "dict"
    /\ revalidated.ok
    /\ \/ /\ CanonicalTyped(recipe_data.d)
          /\ recipe_data.d # SampleRecord
          /\ recipe_data.d["yields"] = PyInt(30)
       \/ /\ ~CanonicalTyped(recipe_data.d)
          /\ "yields" \in DOMAIN recipe_data.d
          /\ recipe_data.d["yields"] = PyStr("4-6 servings")

\* C12 as stated: in every record the Normalizer returns, prep_time,
\* cook_time, total_time and yields are non-negative integers, also for
\* raw inputs that carry negative integers.
C12_TimesNonNegative ==
    (npc # "raw" /\ validated.ok) =>
        \A f \in IntFields :
            /\ isinstance(validated.val[f], "int")
            /\ validated.val[f].k = "int" => validated.val[f].n >= 0

(* ------------------------------------------------------------------ *)
(* The JSON-LD scan on its own                                          *)
(* ------------------------------------------------------------------ *)
MaxBlocks == 2

\* a dict that carries recipe fields next to an @graph without a recipe
LdGraphFields ==
    ("@graph" :> PyList(<<PyDict(LdWebSite)>>))
        @@ ("recipeIngredient" :> PyList(<<PyStr("1 onion")>>))

\* a dict whose @type is null, with recipe fields
LdTypeNull == ("@type" :> None) @@ ("ingredients" :> PyList(<<PyStr("2 eggs")>>))

Blocks ==
    {Malformed, PyStr("x"),
     PyDict(LdRecipe), PyDict(LdFoodRecipe), PyDict(LdWebSite), PyDict(LdUntyped),
     PyDict(LdTypeList), PyDict(LdTypeNull), PyDict(LdGraph), PyDict(LdGraphFields),
     PyList(<<PyDict(LdWebSite), PyDict(LdUntyped)>>)}

BlockSeqs == UNION {[1..n -> Blocks] : n \in 0..MaxBlocks}

ScanInit ==
    /\ scripts \in BlockSeqs
    /\ gemini_api_key \in ApiKeys
    /\ scanned = NotCalled
    /\ jsonld = NotCalled
    /\ template = UNIFIED_RECIPE_FORMAT
    /\ others = 0
    /\ pc = "off"
    /\ url = ""
    /\ language = ""
    /\ platform = ""
    /\ data = UNIFIED_RECIPE_FORMAT
    /\ source = ""
    /\ trace = <<>>
    /\ errors = <<>>
    /\ translation = NoTranslation
    /\ response = NoResponse
    /\ video = NoVideo
    /\ npc = "off"
    /\ recipe_data = None
    /\ validated = NotCalled
    /\ revalidated = NotCalled

\* the loop of try_json_ld over the blocks of the page
ScanPage ==
    /\ pc = "off" /\ npc = "off"
    /\ scanned = NotCalled
    /\ scanned' = Ok([recipe_data |-> scan_scripts(scripts),
                      blocks |-> blocks_scanned(scripts)])
    /\ UNCHANGED <<scripts, jsonld, template, others>>
    /\ UNCHANGED <<pvars, nvars>>

\* try_json_ld on the page, the HTTP request having succeeded
JsonLdOnPage ==
    /\ pc = "off" /\ npc = "off"
    /\ scanned # NotCalled
    /\ jsonld = NotCalled
    /\ \E ai \in AiResponses, stored \in BOOLEAN :
          LET r == try_json_ld(gemini_api_key, Ok(scripts), ai, stored) IN
          /\ jsonld' = Ok(r)
          /\ template' = IF r.res.ok THEN template_after_build(template, r.res.val)
                         ELSE template
    /\ UNCHANGED <<scripts, scanned, others>>
    /\ UNCHANGED <<pvars, nvars>>

ScanNext == ScanPage \/ JsonLdOnPage

SpecScan == ScanInit /\ [][ScanNext]_vars

\* the @type of a dict matches: the test of the scan on the dict itself
type_matches(d) ==
    LET item_type == get(d, "@type", PyStr("")) IN
    \/ is_recipe_type(item_type)
    \/ isinstance(item_type, "str") /\ contains(lower(item_type.s), "recipe")

\* the match a block contains, None when it contains none: a matching
\* entry of a list; for a dict, the dict when its @type matches, else a
\* matching entry of its @graph array, else the dict when it satisfies the
\* predicate
match_of(block) ==
    IF block = Malformed THEN None
    ELSE IF isinstance(block, "list") THEN first_recipe_item(block.l)
    ELSE IF isinstance(block, "dict")
    THEN IF type_matches(block.d) THEN block
         ELSE IF /\ "@graph" \in DOMAIN block.d
                 /\ isinstance(block.d["@graph"], "list")
                 /\ first_recipe_item(block.d["@graph"].l) # None
              THEN first_recipe_item(block.d["@graph"].l)
              ELSE IF is_recipe_data(block.d) THEN block ELSE None
    ELSE None

Matching == {i \in 1..Len(scripts) : match_of(scripts[i]) # None}

\* try_json_ld ended with "No valid JSON-LD recipe found"
NoRecipeError(r) ==
    /\ r.res = Raise("ValueError")
    /\ Count(r.ev, "format_with_gemini") = 0

\* C15: the scan selects the match of the first block of the page that
\* contains one (a matching entry of a list; a dict whose @type matches,
\* else a matching entry of its @graph, else the dict itself when it
\* satisfies the predicate, whatever the form of its @type) and takes no
\* block after it; a malformed block is skipped; try_json_ld fails with the
\* no-recipe error exactly when no block contains a match.
C15_JsonLdSelection ==
    /\ scanned # NotCalled =>
          IF Matching = {}
          THEN scanned.val.recipe_data = None
          ELSE /\ scanned.val.recipe_data = match_of(scripts[Min(Matching)])
               /\ scanned.val.blocks = Min(Matching)
    /\ jsonld # NotCalled => (NoRecipeError(jsonld.val) <=> Matching = {})

\* what the loop does meet: on pages whose dicts have a string @type and
\* no @graph next to recipe fields it selects the first match and stops
ScanRegular ==
    \A i \in 1..Len(scripts) :
        scripts[i] \notin {PyDict(LdTypeList), PyDict(LdTypeNull),
                           PyDict(LdGraphFields)}

ScanOnRegularPages ==
    (ScanRegular /\ scanned # NotCalled) =>
        IF Matching = {}
        THEN scanned.val.recipe_data = None
        ELSE /\ scanned.val.recipe_data = match_of(scripts[Min(Matching)])
             /\ scanned.val.blocks = Min(Matching)

(* ------------------------------------------------------------------ *)
(* Requests next to one another                                         *)
(* ------------------------------------------------------------------ *)
MaxOthers == 1

\* what the strategies of another request hand to the builders of records
OtherInputs == {PyDict(AiRecipe), None}

\* Another request of the same process builds a record, by
\* validate_recipe_structure or by format_recipe_scrapers_data, or fails
\* to; it may come before, between or after the steps of the request
\* above.  The template is all the two requests could share: the handler
\* keeps everything else in local variables and gemini_api_key is only read.
OtherRequest ==
    /\ pc # "off"
    /\ others < MaxOthers
    /\ \/ \E raw \in OtherInputs :
             LET built == validate_recipe_structure(raw) IN
             template' = IF built.ok THEN template_after_build(template, built.val)
                         ELSE template
       \/ \E lib \in {Ok(LibRecipe)} :
             LET built == try_recipe_scraper(lib, TRUE).res IN
             template' = IF built.ok THEN template_after_build(template, built.val)
                         ELSE template
    /\ others' = others + 1
    /\ UNCHANGED <<pvars, nvars, svars>>

NextShared == Next \/ OtherRequest

SpecShared == Init /\ [][NextShared]_vars

\* the video strategy returned a record for which the AI had answered {}
VideoFromEmptyAnswer == VideoSucceeded /\ video.ai.val.body = PyDict(EmptyDict)

====
